---- MODULE Spec2Model ----
(***************************************************************************)
(* Model of eldolar_info.py: the page extractor download_data_dolar, the   *)
(* record splitter split_dict, the assembler dict_dataframe /              *)
(* Unify_Dataframe, and the module-level date driver.                      *)
(*                                                                         *)
(* Datetimes are ticks (TicksPerDay ticks to a calendar day); a cell text  *)
(* is a positive integer standing for the stripped text of a <td>; a       *)
(* Python dict is a sequence of [key, val] pairs in insertion order; a     *)
(* raise is an outcome [raised |-> <exception>, value |-> <empty>].        *)
(***************************************************************************)
EXTENDS Integers, Sequences, FiniteSets, TLC

VARIABLES pc, current_date, end_date, data, requested, unify_calls, arg, ret

vars == <<pc, current_date, end_date, data, requested, unify_calls, arg, ret>>

----------------------------------------------------------------------------
(* Bounds of the model *)

MaxRows == 2
MaxCells == 5
MaxRecords == 3
MaxDays == 2
TicksPerDay == 2

(* Sample values *)

Banks == {"BancoX", "BancoY"}
Quotes == {1, 2}
StatusCodes == {200, 404}

(* Program constants *)

start_date == 0
HTTP_OK == 200
NaN == -1
NoTitle == "<no span title>"

----------------------------------------------------------------------------
(* Outcomes of a call *)

Return(v) == [raised |-> "none", value |-> v]
Raise(e, empty) == [raised |-> e, value |-> empty]

Range(s) == {s[i] : i \in DOMAIN s}

SeqsUpTo(S, n) == UNION {[1..k -> S] : k \in 0..n}

timedelta(days) == days * TicksPerDay

DateOf(t) == t \div TicksPerDay

----------------------------------------------------------------------------
(* Python dict, insertion ordered *)

DictKeys(d) == {d[i].key : i \in DOMAIN d}

DictGet(d, k) == d[CHOOSE i \in DOMAIN d : d[i].key = k].val

DictSet(d, k, v) ==
    IF k \in DictKeys(d)
    THEN [i \in DOMAIN d |-> IF d[i].key = k THEN [key |-> k, val |-> v] ELSE d[i]]
    ELSE Append(d, [key |-> k, val |-> v])

----------------------------------------------------------------------------
(* download_data_dolar *)

\* A <tr>: title is the title of the first titled <span> in its first <td>
\* (NoTitle when that cell has none), cells are the stripped texts of its <td>s.
CellText(q, i) == 10 * q + i

RowCells(n, q) == [i \in 1..n |-> CellText(q, i)]

Rows ==
    {[title |-> t, cells |-> RowCells(n, q)] :
        t \in Banks \cup {NoTitle}, n \in 0..MaxCells, q \in Quotes}

\* What requests.get may return: a failure status (its body is never read),
\* a page with no <tbody>, or a page whose <tbody> holds the given <tr>s.
FailedResponses ==
    {[status_code |-> s, tbody |-> FALSE, rows |-> <<>>] : s \in StatusCodes \ {HTTP_OK}}

NoTableResponse == [status_code |-> HTTP_OK, tbody |-> FALSE, rows |-> <<>>]

Page(rows) == [status_code |-> HTTP_OK, tbody |-> TRUE, rows |-> rows]

Responses ==
    FailedResponses \cup {NoTableResponse}
    \cup {Page(r) : r \in SeqsUpTo(Rows, MaxRows)}

\* Mutant: only the presence of a first cell is checked.
HeaderFails_AnyFirstCell(row) == Len(row.cells) = 0

HeaderFails(row) == Len(row.cells) = 0 \/ row.title = NoTitle

DecodeFails(row) == Len(row.cells) # 4 /\ Len(row.cells) < 2

DecodeRow_ThreeCells(header, row, date) ==
    IF Len(row) = 3
    THEN [banco |-> header, date |-> date,
          compra |-> row[Len(row) - 1], venta |-> row[Len(row)]]
    ELSE [banco |-> header, date |-> date, otro |-> row[Len(row)]]

DecodeRow(header, row, date) ==
    IF Len(row) = 4
    THEN [banco |-> header, date |-> date, otro |-> row[Len(row)]]
    ELSE [banco |-> header, date |-> date,
          compra |-> row[Len(row) - 1], venta |-> row[Len(row)]]

download_data_dolar(response, date) ==
    IF response.status_code # HTTP_OK THEN Raise("HTTPError", <<>>)
    ELSE IF ~response.tbody THEN Raise("ValueError", <<>>)
    ELSE LET rows == response.rows IN
         IF \E i \in DOMAIN rows : HeaderFails(rows[i]) THEN Raise("IndexError", <<>>)
         ELSE IF \E i \in DOMAIN rows : DecodeFails(rows[i]) THEN Raise("IndexError", <<>>)
         ELSE Return([i \in DOMAIN rows |->
                        DecodeRow(rows[i].title, rows[i].cells, date)])

----------------------------------------------------------------------------
(* Specification of the extractor alone *)

Dates == {start_date, start_date + timedelta(1)}

Idle ==
    /\ current_date = start_date
    /\ end_date = start_date
    /\ data = <<>>
    /\ requested = <<>>
    /\ unify_calls = 0

ExtractInit ==
    /\ Idle
    /\ pc = "call"
    /\ arg \in {[response |-> r, date |-> d] : r \in Responses, d \in Dates}
    /\ ret = Return(<<>>)

ExtractCall ==
    /\ pc = "call"
    /\ ret' = download_data_dolar(arg.response, arg.date)
    /\ pc' = "returned"
    /\ UNCHANGED <<current_date, end_date, data, requested, unify_calls, arg>>

ExtractNext == ExtractCall

ExtractSpec == ExtractInit /\ [][ExtractNext]_vars

\* C1: every record the Extractor returns comes from exactly one row, in row
\* order, and carries that row's bank name and the supplied date; a row of
\* exactly 4 cells gives a record whose only rate category is otro = last
\* cell, a row of any other cell count gives exactly compra = second-to-last
\* cell and venta = last cell.
C1_RowDecoding ==
    (pc = "returned" /\ ret.raised = "none") =>
        /\ Len(ret.value) = Len(arg.response.rows)
        /\ \A i \in DOMAIN arg.response.rows :
             LET cells == arg.response.rows[i].cells
                 n == Len(cells)
                 rec == ret.value[i]
             IN /\ rec.banco = arg.response.rows[i].title
                /\ rec.date = arg.date
                /\ n = 4 => /\ DOMAIN rec = {"banco", "date", "otro"}
                            /\ rec.otro = cells[n]
                /\ n # 4 => /\ DOMAIN rec = {"banco", "date", "compra", "venta"}
                            /\ rec.compra = cells[n - 1]
                            /\ rec.venta = cells[n]

C1_Witness ==
    /\ pc = "returned"
    /\ ret.raised = "none"
    /\ Len(ret.value) = 2
    /\ Len(arg.response.rows[1].cells) = 4
    /\ Len(arg.response.rows[2].cells) = 5
    /\ "otro" \in DOMAIN ret.value[1]
    /\ "venta" \in DOMAIN ret.value[2]

----------------------------------------------------------------------------
(* split_dict *)

EmptySplit == [compra |-> <<>>, venta |-> <<>>, otro |-> <<>>]

\* One iteration of `for entry in data`: mutant that files a compra/venta
\* record under otro as well.
SplitEntry_AlsoOtro(acc, entry) ==
    [compra |-> IF "compra" \in DOMAIN entry
                THEN DictSet(acc.compra, entry.banco,
                             [date |-> entry.date, compra |-> entry.compra])
                ELSE acc.compra,
     venta  |-> IF "venta" \in DOMAIN entry
                THEN DictSet(acc.venta, entry.banco,
                             [date |-> entry.date, venta |-> entry.venta])
                ELSE acc.venta,
     otro   |-> IF "otro" \in DOMAIN entry
                THEN DictSet(acc.otro, entry.banco,
                             [date |-> entry.date, otro |-> entry.otro])
                ELSE DictSet(acc.otro, entry.banco,
                             [date |-> entry.date, otro |-> entry.venta])]

\* One iteration of `for entry in data`: mutant that keeps a bank's first
\* entry instead of overwriting it.
SplitEntry_FirstWins(acc, entry) ==
    [compra |-> IF "compra" \in DOMAIN entry /\ entry.banco \notin DictKeys(acc.compra)
                THEN DictSet(acc.compra, entry.banco,
                             [date |-> entry.date, compra |-> entry.compra])
                ELSE acc.compra,
     venta  |-> IF "venta" \in DOMAIN entry /\ entry.banco \notin DictKeys(acc.venta)
                THEN DictSet(acc.venta, entry.banco,
                             [date |-> entry.date, venta |-> entry.venta])
                ELSE acc.venta,
     otro   |-> IF "otro" \in DOMAIN entry /\ entry.banco \notin DictKeys(acc.otro)
                THEN DictSet(acc.otro, entry.banco,
                             [date |-> entry.date, otro |-> entry.otro])
                ELSE acc.otro]

\* One iteration of `for entry in data`.
SplitEntry(acc, entry) ==
    [compra |-> IF "compra" \in DOMAIN entry
                THEN DictSet(acc.compra, entry.banco,
                             [date |-> entry.date, compra |-> entry.compra])
                ELSE acc.compra,
     venta  |-> IF "venta" \in DOMAIN entry
                THEN DictSet(acc.venta, entry.banco,
                             [date |-> entry.date, venta |-> entry.venta])
                ELSE acc.venta,
     otro   |-> IF "otro" \in DOMAIN entry
                THEN DictSet(acc.otro, entry.banco,
                             [date |-> entry.date, otro |-> entry.otro])
                ELSE acc.otro]

RECURSIVE SplitLoop(_, _, _)
SplitLoop(entries, i, acc) ==
    IF i > Len(entries) THEN acc
    ELSE SplitLoop(entries, i + 1, SplitEntry(acc, entries[i]))

split_dict(entries) == SplitLoop(entries, 1, EmptySplit)

----------------------------------------------------------------------------
(* Specification of the splitter alone *)

\* The records the Extractor can produce: one-figure rows and buy/sell rows.
BankRecords ==
    {[banco |-> b, date |-> d, otro |-> CellText(q, 4)] :
        b \in Banks, d \in Dates, q \in Quotes}
    \cup {[banco |-> b, date |-> d, compra |-> CellText(q, 2), venta |-> CellText(q, 3)] :
        b \in Banks, d \in Dates, q \in Quotes}

SplitInit ==
    /\ Idle
    /\ pc = "call"
    /\ arg \in SeqsUpTo(BankRecords, MaxRecords)
    /\ ret = Return(EmptySplit)

SplitCall ==
    /\ pc = "call"
    /\ ret' = Return(split_dict(arg))
    /\ pc' = "returned"
    /\ UNCHANGED <<current_date, end_date, data, requested, unify_calls, arg>>

SplitNext == SplitCall

SplitSpec == SplitInit /\ [][SplitNext]_vars

Categories == {"compra", "venta", "otro"}

\* The positions of the records of `entries` that name bank b and carry category c.
Carriers(entries, b, c) ==
    {i \in DOMAIN entries : entries[i].banco = b /\ c \in DOMAIN entries[i]}

Last(S) == CHOOSE i \in S : \A j \in S : j <= i

Entry(rec, c) == ("date" :> rec.date) @@ (c :> rec[c])

MapsHolding(split, b) == {c \in Categories : b \in DictKeys(split[c])}

\* C6: split_dict raises nothing; a bank is in a category's map exactly when
\* one of its records carries that category; a bank with a single record is
\* in either compra_map and venta_map or otro_map alone, never both groups,
\* each entry holding that record's date and that category's value; an
\* empty input yields three empty maps.
C6_SplitByCategory ==
    pc = "returned" =>
        /\ ret.raised = "none"
        /\ \A b \in Banks, c \in Categories :
             b \in DictKeys(ret.value[c]) <=> Carriers(arg, b, c) # {}
        /\ \A i \in DOMAIN arg :
             (\A j \in DOMAIN arg : arg[j].banco = arg[i].banco => j = i) =>
                /\ MapsHolding(ret.value, arg[i].banco) = DOMAIN arg[i] \ {"banco", "date"}
                /\ MapsHolding(ret.value, arg[i].banco) \in {{"compra", "venta"}, {"otro"}}
                /\ \A c \in MapsHolding(ret.value, arg[i].banco) :
                     DictGet(ret.value[c], arg[i].banco) = Entry(arg[i], c)
        /\ arg = <<>> => ret.value = EmptySplit

C6_Witness ==
    /\ pc = "returned"
    /\ Len(arg) = 2
    /\ arg[1].banco # arg[2].banco
    /\ "compra" \in DOMAIN arg[1]
    /\ "otro" \in DOMAIN arg[2]
    /\ Len(ret.value.compra) = 1
    /\ Len(ret.value.venta) = 1
    /\ Len(ret.value.otro) = 1

\* C4 as stated: for any two records A, A' naming the same bank, whatever
\* categories each carries, split_dict([A, A']) equals split_dict([A']).
C4_LastRecordAlone ==
    (pc = "returned" /\ Len(arg) = 2 /\ arg[1].banco = arg[2].banco) =>
        ret.value = split_dict(<<arg[2]>>)

\* C4 as amended: for two records A, A' naming the same bank and carrying the
\* same categories, split_dict([A, A']) equals split_dict([A']); in general,
\* a bank's entry in a category's map is determined by the last of its
\* records that carries that category.
C4_LastWriteWinsPerMap ==
    pc = "returned" =>
        /\ (Len(arg) = 2 /\ arg[1].banco = arg[2].banco /\ DOMAIN arg[1] = DOMAIN arg[2]) =>
              ret.value = split_dict(<<arg[2]>>)
        /\ \A b \in Banks, c \in Categories :
             Carriers(arg, b, c) # {} =>
                DictGet(ret.value[c], b) = Entry(arg[Last(Carriers(arg, b, c))], c)

C4_Witness ==
    /\ pc = "returned"
    /\ Len(arg) = 3
    /\ arg[1].banco = arg[2].banco
    /\ arg[2].banco = arg[3].banco
    /\ "compra" \in DOMAIN arg[1]
    /\ "otro" \in DOMAIN arg[2]
    /\ "compra" \in DOMAIN arg[3]
    /\ arg[1] # arg[3]
    /\ DictGet(ret.value.compra, arg[3].banco) = Entry(arg[3], "compra")
    /\ DictGet(ret.value.otro, arg[3].banco) = Entry(arg[2], "otro")

----------------------------------------------------------------------------
(* pandas: a DataFrame is its index (row labels, in row order), its columns *)
(* (in column order) and its rows, each a function from the columns to a    *)
(* value or NaN.                                                            *)

EmptyFrame == [index |-> <<>>, columns |-> <<>>, rows |-> <<>>]

\* pd.DataFrame(d, index=[date]) for a dict d of scalars: one row.
DataFrame(d, date) ==
    [index   |-> <<date>>,
     columns |-> [i \in DOMAIN d |-> d[i].key],
     rows    |-> <<[b \in DictKeys(d) |-> DictGet(d, b)]>>]

Reindex(row, columns) ==
    [b \in Range(columns) |-> IF b \in DOMAIN row THEN row[b] ELSE NaN]

\* Rows of a, then rows of b, over the union of their columns.
ConcatRows(a, b) ==
    LET New(c) == c \notin Range(a.columns)
        columns == a.columns \o SelectSeq(b.columns, New)
    IN [index   |-> a.index \o b.index,
        columns |-> columns,
        rows    |-> [i \in DOMAIN a.rows |-> Reindex(a.rows[i], columns)]
                    \o [i \in DOMAIN b.rows |-> Reindex(b.rows[i], columns)]]

\* Mutant: the concatenation keeps the rows in ascending index order.
ConcatTwo_Sorted(a, b) ==
    IF a.index # <<>> /\ b.index # <<>> /\ b.index[1] < a.index[Len(a.index)]
    THEN ConcatRows(b, a)
    ELSE ConcatRows(a, b)

ConcatTwo(a, b) == ConcatRows(a, b)

RECURSIVE ConcatFrom(_, _, _)
ConcatFrom(frames, i, acc) ==
    IF i > Len(frames) THEN acc
    ELSE ConcatFrom(frames, i + 1, ConcatTwo(acc, frames[i]))

\* pd.concat(frames)
concat(frames) ==
    IF frames = <<>> THEN Raise("ValueError", EmptyFrame)
    ELSE Return(ConcatFrom(frames, 2, frames[1]))

----------------------------------------------------------------------------
(* dict_dataframe: the set of its possible outcomes.  list(dates)[0] is     *)
(* whichever element the set of dates happens to iterate first.             *)

MapDates(d) == {d[i].val.date : i \in DOMAIN d}

data_for_df(d, status) ==
    [i \in DOMAIN d |-> [key |-> d[i].key, val |-> d[i].val[status]]]

\* Mutant: the defensive check of the dates.
dict_dataframe_Checked(d, status) ==
    IF d = <<>> THEN {Raise("IndexError", EmptyFrame)}
    ELSE IF Cardinality(MapDates(d)) > 1 THEN {Raise("InconsistentDateError", EmptyFrame)}
    ELSE {Return(DataFrame(data_for_df(d, status), date)) : date \in MapDates(d)}

dict_dataframe(d, status) ==
    IF d = <<>> THEN {Raise("IndexError", EmptyFrame)}
    ELSE {Return(DataFrame(data_for_df(d, status), date)) : date \in MapDates(d)}

----------------------------------------------------------------------------
(* Unify_Dataframe: the set of its possible outcomes *)

NoTables == [dfc |-> EmptyFrame, dfv |-> EmptyFrame, dfo |-> EmptyFrame]

NoLists == [compra |-> <<>>, venta |-> <<>>, otro |-> <<>>]

\* The body of `for x in data` up to the three dict_dataframe calls.
DayFrames(x) ==
    LET s == split_dict(x) IN
    {IF c.raised # "none" THEN Raise(c.raised, NoLists)
     ELSE IF v.raised # "none" THEN Raise(v.raised, NoLists)
     ELSE IF o.raised # "none" THEN Raise(o.raised, NoLists)
     ELSE Return([compra |-> c.value, venta |-> v.value, otro |-> o.value]) :
        c \in dict_dataframe(s.compra, "compra"),
        v \in dict_dataframe(s.venta, "venta"),
        o \in dict_dataframe(s.otro, "otro")}

\* The three pd.concat calls after the loop.
ConcatAll(lists) ==
    LET c == concat(lists.compra)
        v == concat(lists.venta)
        o == concat(lists.otro)
    IN IF c.raised # "none" THEN Raise(c.raised, NoTables)
       ELSE IF v.raised # "none" THEN Raise(v.raised, NoTables)
       ELSE IF o.raised # "none" THEN Raise(o.raised, NoTables)
       ELSE Return([dfc |-> c.value, dfv |-> v.value, dfo |-> o.value])

RECURSIVE UnifyLoop(_, _, _)
UnifyLoop(days, i, lists) ==
    IF i > Len(days) THEN {ConcatAll(lists)}
    ELSE UNION {IF f.raised # "none" THEN {Raise(f.raised, NoTables)}
                ELSE UnifyLoop(days, i + 1,
                               [compra |-> Append(lists.compra, f.value.compra),
                                venta  |-> Append(lists.venta, f.value.venta),
                                otro   |-> Append(lists.otro, f.value.otro)]) :
                f \in DayFrames(days[i])}

Unify_Dataframe(days) == UnifyLoop(days, 1, NoLists)

----------------------------------------------------------------------------
(* Specification of dict_dataframe alone *)

DfInit ==
    /\ Idle
    /\ pc = "call"
    /\ arg \in {[data |-> split_dict(recs)[c], status |-> c] :
                  recs \in SeqsUpTo(BankRecords, MaxRecords), c \in Categories}
    /\ ret = Return(EmptyFrame)

DfCall ==
    /\ pc = "call"
    /\ ret' \in dict_dataframe(arg.data, arg.status)
    /\ pc' = "returned"
    /\ UNCHANGED <<current_date, end_date, data, requested, unify_calls, arg>>

DfNext == DfCall

DfSpec == DfInit /\ [][DfNext]_vars

----------------------------------------------------------------------------
(* The pages of the site: each bank is absent from the day's table, or has  *)
(* a buy/sell row (3 cells) or a one-figure row (4 cells).                  *)

Shapes == {"absent", "buy/sell", "one figure"}

SiteRow(bank, shape, q) ==
    IF shape = "absent" THEN <<>>
    ELSE <<[title |-> bank, cells |-> RowCells(IF shape = "one figure" THEN 4 ELSE 3, q)]>>

OtherQuote(q) == CHOOSE o \in Quotes : o # q

SitePages ==
    {Page(SiteRow("BancoX", sx, q) \o SiteRow("BancoY", sy, OtherQuote(q))) :
        sx \in Shapes, sy \in Shapes, q \in Quotes}

\* A row whose first cell has no titled <span>, put at any position of a page.
UntitledRow == [title |-> NoTitle, cells |-> RowCells(3, 1)]

InsertAt(rows, k, row) ==
    [i \in 1..Len(rows) + 1 |-> IF i < k THEN rows[i] ELSE IF i = k THEN row ELSE rows[i - 1]]

MalformedPages ==
    UNION {{Page(InsertAt(p.rows, k, UntitledRow)) : k \in 1..Len(p.rows) + 1} :
             p \in SitePages}

SiteResponses == FailedResponses \cup {NoTableResponse} \cup SitePages \cup MalformedPages

----------------------------------------------------------------------------
(* Specification of the assembler alone, on days the Extractor can return *)

AsmDays == {download_data_dolar(p, d).value : p \in SitePages, d \in Dates}

AsmInit ==
    /\ Idle
    /\ pc = "call"
    /\ arg \in SeqsUpTo(AsmDays, MaxDays)
    /\ ret = Return(NoTables)

AsmCall ==
    /\ pc = "call"
    /\ ret' \in Unify_Dataframe(arg)
    /\ pc' = "returned"
    /\ UNCHANGED <<current_date, end_date, data, requested, unify_calls, arg>>

AsmNext == AsmCall

AsmSpec == AsmInit /\ [][AsmNext]_vars

TableOf(tables, c) ==
    CASE c = "compra" -> tables.dfc
      [] c = "venta" -> tables.dfv
      [] c = "otro" -> tables.dfo

\* The positions, in input order, of the days whose map for category c has entries.
Contributing(days, c) ==
    LET HasEntries(i) == split_dict(days[i])[c] # <<>>
    IN SelectSeq([i \in 1..Len(days) |-> i], HasEntries)

\* C2 as stated: for every non-empty sequence of days, each with at least one
\* record, the assembly completes without error, and each category's table has as many rows as there are days
\* whose map for that category is non-empty.
C2_EmptyMapContributesNoRow ==
    (pc = "returned" /\ arg # <<>> /\ \A i \in DOMAIN arg : arg[i] # <<>>) =>
        /\ ret.raised = "none"
        /\ \A c \in Categories :
             Len(TableOf(ret.value, c).index) = Len(Contributing(arg, c))

\* C7: when the assembly completes, row k of each category's table is the row
\* of the k-th contributing day of the input, whatever the order of the dates:
\* its index is that day's date and its cells are that day's values.
C7_RowsMirrorInputOrder ==
    (pc = "returned" /\ ret.raised = "none") =>
        \A c \in Categories :
            LET T == TableOf(ret.value, c)
                K == Contributing(arg, c)
            IN /\ Len(T.index) = Len(K)
               /\ Len(T.rows) = Len(K)
               /\ \A k \in DOMAIN K :
                    LET m == split_dict(arg[K[k]])[c]
                    IN /\ T.index[k] \in MapDates(m)
                       /\ \A j \in DOMAIN m : T.rows[k][m[j].key] = m[j].val[c]

C7_Witness ==
    /\ pc = "returned"
    /\ ret.raised = "none"
    /\ Len(arg) = 2
    /\ arg[1][1].date > arg[2][1].date
    /\ ret.value.dfc.index = <<arg[1][1].date, arg[2][1].date>>
    /\ ret.value.dfo.index = <<arg[1][1].date, arg[2][1].date>>

----------------------------------------------------------------------------
(* The module-level driver, lines 203-221 *)

NoCall == [response |-> [status_code |-> 0, tbody |-> FALSE, rows |-> <<>>],
           date |-> start_date]

\* datetime.datetime.now(): any instant of the first MaxDays days from start_date.
Now == start_date .. (start_date + timedelta(MaxDays) - 1)

Init ==
    /\ pc = "loop"
    /\ current_date = start_date
    /\ end_date \in Now
    /\ data = <<>>
    /\ requested = <<>>
    /\ unify_calls = 0
    /\ arg = NoCall
    /\ ret = Return(NoTables)

\* Mutant of the loop test: the end date is excluded.
LoopTest_Exclusive(current, end) == current < end

\* while current_date <= end_date
LoopTest(current, end) == current <= end

\* Mutant of the abort: a failed day is skipped and the loop goes on.
AfterRaise_Skip(current) ==
    [pc |-> "loop", current_date |-> current + timedelta(1)]

\* An exception raised inside the loop is caught nowhere: the script ends.
AfterRaise(current) ==
    [pc |-> "aborted", current_date |-> current]

\* One iteration of the loop: request the page of current_date, extract its
\* records, append them, step to the next day.
Iterate ==
    /\ pc = "loop"
    /\ LoopTest(current_date, end_date)
    /\ \E response \in SiteResponses :
         LET out == download_data_dolar(response, current_date) IN
         /\ requested' = Append(requested, current_date)
         /\ arg' = [response |-> response, date |-> current_date]
         /\ IF out.raised = "none"
            THEN /\ data' = Append(data, out.value)
                 /\ current_date' = current_date + timedelta(1)
                 /\ pc' = "loop"
                 /\ ret' = ret
            ELSE /\ data' = data
                 /\ current_date' = AfterRaise(current_date).current_date
                 /\ pc' = AfterRaise(current_date).pc
                 /\ ret' = Raise(out.raised, NoTables)
    /\ UNCHANGED <<end_date, unify_calls>>

\* The loop test fails: dfc, dfv, dfo = Unify_Dataframe(data)
Unify ==
    /\ pc = "loop"
    /\ ~LoopTest(current_date, end_date)
    /\ \E out \in Unify_Dataframe(data) :
         /\ ret' = out
         /\ pc' = IF out.raised = "none" THEN "done" ELSE "aborted"
    /\ unify_calls' = unify_calls + 1
    /\ UNCHANGED <<current_date, end_date, data, requested, arg>>

Next == Iterate \/ Unify

Spec == Init /\ [][Next]_vars

\* The script is one thread that runs until it ends or an exception ends it.
FairSpec == Spec /\ WF_vars(Next)

----------------------------------------------------------------------------
(* Claims about the whole run *)

LastResponse == arg.response

Untitled(row) == Len(row.cells) > 0 /\ row.title = NoTitle

\* Bank b has a record carrying category c among the records of one day.
Reported(day, b, c) == \E j \in DOMAIN day : day[j].banco = b /\ c \in DOMAIN day[j]

ReportedValue(day, b, c) ==
    day[Last({j \in DOMAIN day : day[j].banco = b /\ c \in DOMAIN day[j]})][c]

\* C3 as stated: once every day of the range has been fetched and extracted,
\* each with at least one record, the tables are produced; each category's
\* table has one row per day on which some bank reported the category, in day
\* order and indexed by the day's date, its columns are the banks that
\* reported the category on any day, and a cell holds the value the bank
\* reported that day, or null when the bank did not report it that day.
C3_EndToEndTables ==
    (unify_calls = 1 /\ \A i \in DOMAIN data : data[i] # <<>>) =>
        /\ ret.raised = "none"
        /\ \A c \in Categories :
             LET T == TableOf(ret.value, c)
                 K == Contributing(data, c)
             IN /\ Range(T.columns) =
                     {b \in Banks : \E i \in DOMAIN data : Reported(data[i], b, c)}
                /\ Len(T.index) = Len(K)
                /\ \A k \in DOMAIN K :
                     /\ T.index[k] = requested[K[k]]
                     /\ \A b \in Range(T.columns) :
                          T.rows[k][b] = IF Reported(data[K[k]], b, c)
                                         THEN ReportedValue(data[K[k]], b, c)
                                         ELSE NaN

C5_State ==
    /\ (requested # <<>> /\ LastResponse.status_code # HTTP_OK) =>
          /\ pc = "aborted"
          /\ ret.raised = "HTTPError"
          /\ ret.value = NoTables
          /\ unify_calls = 0
          /\ requested[Len(requested)] = current_date
          /\ Len(data) = Len(requested) - 1
    /\ pc = "done" => Len(data) = Len(requested)

\* C5: when the last request returned a non-success status the run has
\* aborted with the fetch error at that day: the day added nothing to the
\* accumulated list, the Assembler has not been invoked, there are no tables,
\* and no step follows an abort, so no later date is fetched; a run that
\* produced tables got a success status for every date it requested.
C5_FetchFailureAborts == []C5_State /\ [][pc # "aborted"]_vars

C5_Witness ==
    /\ Len(requested) = 2
    /\ LastResponse.status_code # HTTP_OK
    /\ Len(data) = 1
    /\ pc = "aborted"

C9_State ==
    (/\ requested # <<>>
     /\ LastResponse.status_code = HTTP_OK
     /\ LastResponse.tbody
     /\ \E i \in DOMAIN LastResponse.rows : Untitled(LastResponse.rows[i])) =>
        /\ pc = "aborted"
        /\ ret.raised = "IndexError"
        /\ ret.value = NoTables
        /\ unify_calls = 0
        /\ Len(data) = Len(requested) - 1

\* C9: when the page of the last request has a row, at any position, whose
\* first cell has no title, the run has aborted with the lookup error: none
\* of that day's rows became records, the Assembler has not been invoked and
\* no step follows.
C9_MalformedRowAborts == []C9_State /\ [][pc # "aborted"]_vars

C9_Witness ==
    /\ pc = "aborted"
    /\ Len(LastResponse.rows) = 3
    /\ ~Untitled(LastResponse.rows[1])
    /\ Untitled(LastResponse.rows[2])
    /\ ~Untitled(LastResponse.rows[3])
    /\ Len(requested) = 2
    /\ Len(data) = 1

C10_State ==
    /\ \A i \in DOMAIN requested : requested[i] = start_date + timedelta(i - 1)
    /\ \A i \in DOMAIN requested : requested[i] <= end_date
    /\ pc # "aborted" => /\ Len(data) = Len(requested)
                         /\ current_date = start_date + timedelta(Len(requested))
    /\ unify_calls <= 1
    /\ pc = "done" => unify_calls = 1
    /\ unify_calls = 1 =>
          /\ pc \in {"done", "aborted"}
          /\ current_date > end_date
          /\ {DateOf(requested[i]) : i \in DOMAIN requested}
                = DateOf(start_date) .. DateOf(end_date)

C10_Step ==
    /\ end_date' = end_date
    /\ Len(data') \in {Len(data), Len(data) + 1}
    /\ SubSeq(data', 1, Len(data)) = data
    /\ Len(requested') <= Len(requested) + 1
    /\ unify_calls' # unify_calls => (data' = data /\ requested' = requested)

\* C10: the dates requested are the consecutive days from start_date, each
\* once, in ascending order and none after end_date; the accumulated list
\* holds one entry per date processed and is only appended to; end_date never
\* changes; the Assembler is invoked at most once and only when the loop test
\* has failed, by which time every calendar date from the start date through
\* the end date has been requested; and the run ends.
C10_DriverVisitsEveryDate ==
    /\ []C10_State
    /\ [][C10_Step]_vars
    /\ <>(pc \in {"done", "aborted"})

C10_Witness ==
    /\ pc = "done"
    /\ end_date = start_date + timedelta(1)
    /\ Len(requested) = 2
    /\ unify_calls = 1

====
